---- MODULE Spec2Model ----
(***************************************************************************)
(* smartPlayer: the metadata-enrichment pipeline (build_db.py) and the     *)
(* next-track selection engine (nexttrack.py).                             *)
(*                                                                         *)
(* Text is a sequence of one-character strings, so that lower-casing,      *)
(* stripping, suffix and substring tests are computed, not assumed.        *)
(* Python's None is Null for text columns and NullYear for the year.       *)
(***************************************************************************)
EXTENDS Integers, Sequences, FiniteSets, TLC

VARIABLES
    hasPayloadColumn, \* schema of mbid_cache: does the recording_json column exist
    tags,             \* the tag container of every file of the directory
    tracks,           \* table tracks of the resolver store, keyed by file
    cache,            \* table mbid_cache, keyed by recording id
    diagnostics,      \* the process-wide counters
    pc,               \* position of the enrichment run
    idx,              \* position of walk_and_process in the directory listing
    pend,             \* process_file's locals between its two commits
    run,              \* number of the current run
    lastQuery,        \* the query_musicbrainz call of the latest step, if any
    fresh,            \* remote recording lookups issued in the current run
    failed,           \* whether a remote recording lookup failed in the current run
    prev,             \* how the previous run ended
    start,            \* the store when the current chain of killed runs began
    kills,            \* kills since then
    answered,         \* what the remote service answered since then, per recording id
    stable,           \* it gave every recording id the same answer each time
    committed,        \* recording ids whose cache entry was committed before a kill
    torn,             \* a kill fell between a cache commit and its track-record commit
    library,          \* table tracks of the play-history store, keyed by file
    sel,              \* the selection engine's invocation
    wire,             \* the outside calls of the latest process_file step
    probe             \* an aggregation of one recording, taken on its own

vars == <<hasPayloadColumn, tags, tracks, cache, diagnostics, pc, idx, pend,
          run, lastQuery, fresh, failed, prev, start, kills, answered, stable,
          committed, torn, library, sel, wire, probe>>

storeVars == <<hasPayloadColumn, tags, tracks, cache, diagnostics, pc, idx, pend,
               run, lastQuery, fresh, failed, prev, start, kills, answered,
               stable, committed, torn, wire>>

---------------------------------------------------------------------------
(* Values *)

Null == "NULL"

NullYear == -1

\* a release date whose leading token is not a number
BadDate == -2

\* runs of the enrichment command in one behaviour
MaxRuns == 3

---------------------------------------------------------------------------
(* Text *)

UpperAlpha == <<"A","B","C","D","E","F","G","H","I","J","K","L","M",
                "N","O","P","Q","R","S","T","U","V","W","X","Y","Z">>

LowerAlpha == <<"a","b","c","d","e","f","g","h","i","j","k","l","m",
                "n","o","p","q","r","s","t","u","v","w","x","y","z">>

Digits == {"0","1","2","3","4","5","6","7","8","9"}

Range(s) == {s[i] : i \in DOMAIN s}

LowerChar(c) ==
    IF \E i \in DOMAIN UpperAlpha : UpperAlpha[i] = c
    THEN LowerAlpha[CHOOSE i \in DOMAIN UpperAlpha : UpperAlpha[i] = c]
    ELSE c

\* str.lower()
Lower(s) == [i \in DOMAIN s |-> LowerChar(s[i])]

IsAlnum(c) == c \in Range(LowerAlpha) \cup Digits

\* normalize_string: lower-case, then drop every character outside [a-z0-9]
normalize_string(s) == SelectSeq(Lower(s), IsAlnum)

\* needle in hay
Contains(needle, hay) ==
    \E i \in 0..(Len(hay) - Len(needle)) :
        SubSeq(hay, i + 1, i + Len(needle)) = needle

\* s.endswith(suffix)
EndsWith(s, suffix) ==
    /\ Len(s) >= Len(suffix)
    /\ SubSeq(s, Len(s) - Len(suffix) + 1, Len(s)) = suffix

\* file_path.split('/')[-1]
Basename(p) ==
    LET slashes == {i \in DOMAIN p : p[i] = "/"}
        last == IF slashes = {} THEN 0
                ELSE CHOOSE i \in slashes : \A j \in slashes : j <= i
    IN SubSeq(p, last + 1, Len(p))

DotMp3 == <<".","m","p","3">>

\* re.sub(r'\.mp3$', '', name, flags=re.IGNORECASE)
StripMp3(name) ==
    IF EndsWith(Lower(name), DotMp3)
    THEN SubSeq(name, 1, Len(name) - Len(DotMp3))
    ELSE name

\* the title load_input_track derives from the reference path
TitleOf(p) == StripMp3(Basename(p))

\* file.lower().endswith(".mp3")
IsMp3(name) == EndsWith(Lower(name), DotMp3)

---------------------------------------------------------------------------
(* The files *)

PathOf ==
    <<
    <<"m","/","Q","u","e","e","n"," ","-"," ","B","o","h","e","m","i","a","n",
      " ","R","h","a","p","s","o","d","y",".","m","p","3">>,
    <<"m","/","0","1"," ","-"," ","B","o","h","e","m","i","a","n"," ","R","h",
      "a","p","s","o","d","y"," ","(","R","e","m","a","s","t","e","r","e","d",
      ")",".","m","p","3">>,
    <<"n","/","Q","U","E","E","N","_","b","o","h","e","m","i","a","n"," ","r",
      "h","a","p","s","o","d","y"," ","[","l","i","v","e","]",".","M","P","3">>,
    <<"m","/","A","b","b","a"," ","-"," ","W","a","t","e","r","l","o","o",".",
      "m","p","3">>,
    <<"m","/","c","o","v","e","r",".","j","p","g">>
    >>

Files == DOMAIN PathOf

\* the directory tree in os.walk order
Dir == <<1, 5, 2>>

DirFiles == Range(Dir)

\* the files walk_and_process hands to process_file
Mp3Files == {f \in DirFiles : IsMp3(Basename(PathOf[f]))}

Mbids == {"m1", "m2"}

Artists == {"a1", "a2"}

---------------------------------------------------------------------------
(* The remote metadata service *)

\* dict.get(key, default)
Get(d, k, default) == IF k \in DOMAIN d THEN d[k] ELSE default

\* what get_artist_by_id(..., includes=["tags"]) returns for an artist
ArtistData ==
    [a \in Artists |->
        IF a = "a1"
        THEN [tags |-> <<[name |-> "glam", count |-> 1]>>]
        ELSE [tags |-> <<[name |-> "rock"], [name |-> "glam", count |-> 1]>>]]

\* recordings get_recording_by_id can return; a key a response lacks is
\* absent from the record
RecFull ==
    [id |-> "full",
     tags |-> <<[name |-> "pop", count |-> 1], [name |-> "rock", count |-> 2]>>,
     releases |-> <<
        [date |-> 1981, status |-> "Official",
         title |-> <<"H","i","t","s"," ","L","i","v","e">>,
         rg |-> [ptype |-> "Album", tags |-> <<[name |-> "pop"]>>]],
        [date |-> 1975, title |-> <<"O","p","e","r","a">>,
         rg |-> [ptype |-> "Album"]]>>,
     credits |-> <<[artist |-> "a1"]>>]

\* no tags, no release, no artist: every field resolves to unknown
RecEmpty == [id |-> "empty"]

\* tags only at artist level, a date only in a release event, no type, no status
RecArtist ==
    [id |-> "artist",
     releases |-> <<
        [events |-> <<[date |-> 1990]>>, title |-> <<"L","i","v","e">>],
        [date |-> BadDate, title |-> <<"D","e","l","u","x","e">>]>>,
     credits |-> <<[artist |-> "a1"], [joinphrase |-> "&"], [artist |-> "a2"]>>]

\* a failed lookup: network error, malformed response, unknown id
Fail == "fail"

\* what the remote service can answer to one lookup: the recording (by name)
\* or a failure, and the credited artists whose tag fetch fails
Answers ==
    { [rec |-> Fail, down |-> {}],
      [rec |-> "full", down |-> {}],
      [rec |-> "empty", down |-> {}],
      [rec |-> "artist", down |-> {}],
      [rec |-> "artist", down |-> {"a1"}],
      [rec |-> "artist", down |-> {"a2"}],
      [rec |-> "artist", down |-> {"a1", "a2"}] }

\* no lookup was issued yet
Unasked == [rec |-> "unasked", down |-> {}]

RecordingOf(answer) ==
    CASE answer = "full" -> RecFull
      [] answer = "empty" -> RecEmpty
      [] answer = "artist" -> RecArtist

---------------------------------------------------------------------------
(* MetadataAggregator: the aggregation of query_musicbrainz *)

\* tag_counts[name] = tag_counts.get(name, 0) + count, on an insertion-ordered dict
Bump(tc, name, w) ==
    IF \E i \in DOMAIN tc : tc[i][1] = name
    THEN LET i == CHOOSE j \in DOMAIN tc : tc[j][1] = name
         IN [tc EXCEPT ![i] = <<name, tc[i][2] + w>>]
    ELSE Append(tc, <<name, w>>)

RECURSIVE AddTags(_, _)
AddTags(tc, tagList) ==
    IF tagList = <<>> THEN tc
    ELSE AddTags(Bump(tc, Head(tagList).name, Get(Head(tagList), "count", 1)),
                 Tail(tagList))

RECURSIVE AddReleaseGroupTags(_, _)
AddReleaseGroupTags(tc, releases) ==
    IF releases = <<>> THEN tc
    ELSE LET r == Head(releases)
             tc2 == IF "rg" \in DOMAIN r THEN AddTags(tc, Get(r.rg, "tags", <<>>))
                    ELSE tc
         IN AddReleaseGroupTags(tc2, Tail(releases))

\* mutant: the first failed artist fetch ends the fallback
RECURSIVE AddArtistTagsUntilFailure(_, _, _)
AddArtistTagsUntilFailure(tc, credits, down) ==
    IF credits = <<>> THEN tc
    ELSE LET c == Head(credits)
         IN IF "artist" \in DOMAIN c /\ c.artist \in down THEN tc
            ELSE AddArtistTagsUntilFailure(
                    IF "artist" \in DOMAIN c
                    THEN AddTags(tc, Get(ArtistData[c.artist], "tags", <<>>))
                    ELSE tc,
                    Tail(credits), down)

\* the artist fallback: a failed fetch is swallowed, the loop goes on
RECURSIVE AddArtistTags(_, _, _)
AddArtistTags(tc, credits, down) ==
    IF credits = <<>> THEN tc
    ELSE LET c == Head(credits)
             tc2 == IF "artist" \in DOMAIN c /\ c.artist \notin down
                    THEN AddTags(tc, Get(ArtistData[c.artist], "tags", <<>>))
                    ELSE tc
         IN AddArtistTags(tc2, Tail(credits), down)

\* the weights of the recording's tags and of its release groups' tags
OwnTagCounts(recording) ==
    AddReleaseGroupTags(AddTags(<<>>, Get(recording, "tags", <<>>)),
                        Get(recording, "releases", <<>>))

TagCounts(recording, down) ==
    LET own == OwnTagCounts(recording)
    IN IF own = <<>>
       THEN AddArtistTags(own, Get(recording, "credits", <<>>), down)
       ELSE own

\* max(d, key=d.get): the first key, in insertion order, of maximal value
MaxKey(tc) ==
    LET i == CHOOSE j \in DOMAIN tc :
                /\ \A k \in DOMAIN tc : tc[k][2] <= tc[j][2]
                /\ \A k \in 1..(j - 1) : tc[k][2] < tc[j][2]
    IN tc[i][1]

Genre(recording, down) ==
    LET tc == TagCounts(recording, down)
    IN IF tc = <<>> THEN Null ELSE MaxKey(tc)

\* the date of a release: its own, else that of its first release event
ReleaseDate(r) ==
    LET own == Get(r, "date", NullYear)
        events == Get(r, "events", <<>>)
    IN IF own = NullYear /\ events # <<>>
       THEN Get(events[1], "date", NullYear)
       ELSE own

\* years.append(int(date.split("-")[0])), a date that does not parse is skipped
Years(recording) ==
    LET rs == Get(recording, "releases", <<>>)
    IN {ReleaseDate(rs[i]) : i \in DOMAIN rs} \ {NullYear, BadDate}

Year(recording) ==
    LET ys == Years(recording)
    IN IF ys = {} THEN NullYear
       ELSE CHOOSE y \in ys : \A z \in ys : y <= z

RECURSIVE CountValues(_, _)
CountValues(tc, values) ==
    IF values = <<>> THEN tc
    ELSE CountValues(Bump(tc, Head(values), 1), Tail(values))

\* the primary types of the release groups, in release order
PrimaryTypes(releases) ==
    LET has(r) == "rg" \in DOMAIN r /\ Get(r.rg, "ptype", Null) # Null
        kept == SelectSeq(releases, has)
    IN [i \in DOMAIN kept |-> kept[i].rg.ptype]

\* the statuses of the releases, in release order
Statuses(releases) ==
    LET has(r) == Get(r, "status", Null) # Null
        kept == SelectSeq(releases, has)
    IN [i \in DOMAIN kept |-> kept[i].status]

\* the keyword scan of one release title
TitleType(title) ==
    LET t == Lower(title)
    IN IF \/ Contains(<<"c","o","m","p","i","l","a","t","i","o","n">>, t)
          \/ Contains(<<"h","i","t","s">>, t)
       THEN "Compilation"
       ELSE IF Contains(<<"d","e","l","u","x","e">>, t) THEN "Deluxe"
       ELSE IF Contains(<<"s","o","u","n","d","t","r","a","c","k">>, t)
       THEN "Soundtrack"
       ELSE IF Contains(<<"l","i","v","e">>, t) THEN "Live"
       ELSE Null

\* the first release whose title carries a keyword decides
RECURSIVE TitleScan(_)
TitleScan(releases) ==
    IF releases = <<>> THEN Null
    ELSE LET t == TitleType(Get(Head(releases), "title", <<>>))
         IN IF t # Null THEN t ELSE TitleScan(Tail(releases))

\* mutant: the keyword scan of the titles comes first
AlbumTypeTitleFirst(recording) ==
    LET rs == Get(recording, "releases", <<>>)
        types == CountValues(<<>>, PrimaryTypes(rs))
        statuses == CountValues(<<>>, Statuses(rs))
    IN IF TitleScan(rs) # Null THEN TitleScan(rs)
       ELSE IF types # <<>> THEN MaxKey(types)
       ELSE IF statuses # <<>> THEN MaxKey(statuses)
       ELSE Null

AlbumType(recording) ==
    LET rs == Get(recording, "releases", <<>>)
        types == CountValues(<<>>, PrimaryTypes(rs))
        statuses == CountValues(<<>>, Statuses(rs))
    IN IF types # <<>> THEN MaxKey(types)
       ELSE IF statuses # <<>> THEN MaxKey(statuses)
       ELSE TitleScan(rs)

\* the (genre, year, album_type) of a fresh lookup
Aggregate(recording, down) ==
    [genre |-> Genre(recording, down),
     year |-> Year(recording),
     album_type |-> AlbumType(recording)]

NoResult == [genre |-> Null, year |-> NullYear, album_type |-> Null]

\* the aggregation of every successful answer of the remote service
Resolved ==
    [a \in {b \in Answers : b.rec # Fail} |->
        Aggregate(RecordingOf(a.rec), a.down)]

---------------------------------------------------------------------------
(* TagReader: get_mbids *)

\* ID3(file_path) raised
Unreadable == [ok |-> FALSE]

\* the tag containers a file of the directory may carry: ufid is the data of
\* the UFID frame owned by http://musicbrainz.org, the others the TXXX frames
TagContainers ==
    { Unreadable,
      [ok |-> TRUE, ufid |-> Null, track |-> Null, artist |-> Null, rg |-> Null],
      [ok |-> TRUE, ufid |-> "m1", track |-> Null, artist |-> "a1", rg |-> "g1"],
      [ok |-> TRUE, ufid |-> Null, track |-> "m1", artist |-> Null, rg |-> Null],
      [ok |-> TRUE, ufid |-> "m2", track |-> "m1", artist |-> "a2", rg |-> Null] }

get_mbids(container) ==
    IF ~container.ok
    THEN [track_mbid |-> Null, artist_mbid |-> Null, release_group_mbid |-> Null]
    ELSE [track_mbid |-> IF container.ufid # Null THEN container.ufid
                         ELSE container.track,
          artist_mbid |-> container.artist,
          release_group_mbid |-> container.rg]

---------------------------------------------------------------------------
(* The resolver store *)

\* a NULL embedding column
NoEmbedding == 0

HasRow(table, key) == key \in DOMAIN table

\* INSERT ... ON CONFLICT(key) DO UPDATE: create or replace the row
Upsert(table, key, row) ==
    [k \in DOMAIN table \cup {key} |-> IF k = key THEN row ELSE table[k]]

\* the cache entry holds a raw payload
HasPayload(c, m) == HasRow(c, m) /\ c[m].recording_json # Null

\* mutant: a cache hit hands back no field
CachedFieldsForgotten(row) ==
    [genre |-> Null, year |-> NullYear, album_type |-> Null]

\* the aggregated fields of a cache row
CachedFields(row) ==
    [genre |-> row.genre, year |-> row.year, album_type |-> row.album_type]

\* a row an earlier schema of the cache left behind: fields, no payload
LegacyCacheRow ==
    [genre |-> "rock", year |-> NullYear, album_type |-> Null,
     recording_json |-> Null]

\* "if not genre" ... on the three resolved fields
Missing(r) ==
    [genre |-> r.genre = Null, year |-> r.year = NullYear,
     album_type |-> r.album_type = Null]

AnyMissing(r) ==
    Missing(r).genre \/ Missing(r).year \/ Missing(r).album_type

NoDiagnostics == [missing_genre |-> 0, missing_year |-> 0, missing_album_type |-> 0]

\* the counters after a fresh lookup that resolved r
Count(d, r) ==
    [missing_genre |-> d.missing_genre + (IF Missing(r).genre THEN 1 ELSE 0),
     missing_year |-> d.missing_year + (IF Missing(r).year THEN 1 ELSE 0),
     missing_album_type |->
        d.missing_album_type + (IF Missing(r).album_type THEN 1 ELSE 0)]

---------------------------------------------------------------------------
(* query_musicbrainz *)

\* the cache read, which is outside the try block: without the
\* recording_json column the SELECT raises
CacheReadRaises(hasColumn) == ~hasColumn

\* mutant: an entry whose genre resolved to unknown is looked up again
CacheHitIfResolved(c, m) == HasPayload(c, m) /\ c[m].genre # Null

\* the cache-first test
CacheHit(c, m) == HasPayload(c, m)

\* mutant: the except clause hands back the fields read from the cache row
OnLookupFailureStale(m, c, d) ==
    [how |-> "remote_fail",
     result |-> IF HasRow(c, m) THEN CachedFields(c[m]) ELSE NoResult,
     cache |-> c, diagnostics |-> d]

\* what the except clause returns
OnLookupFailure(m, c, d) ==
    [how |-> "remote_fail", result |-> NoResult, cache |-> c, diagnostics |-> d]

\* mutant: the cache entry is written without the raw payload
FreshLookupNoPayload(m, c, d, answer) ==
    IF answer.rec = Fail
    THEN OnLookupFailure(m, c, d)
    ELSE LET r == Resolved[answer]
         IN [how |-> "remote_ok",
             result |-> r,
             cache |-> Upsert(c, m, [genre |-> r.genre, year |-> r.year,
                                     album_type |-> r.album_type,
                                     recording_json |-> Null]),
             diagnostics |-> Count(d, r)]

\* the fresh lookup: aggregate, count, write the cache entry
FreshLookup(m, c, d, answer) ==
    IF answer.rec = Fail
    THEN OnLookupFailure(m, c, d)
    ELSE LET r == Resolved[answer]
         IN [how |-> "remote_ok",
             result |-> r,
             cache |-> Upsert(c, m, [genre |-> r.genre, year |-> r.year,
                                     album_type |-> r.album_type,
                                     recording_json |-> answer.rec]),
             diagnostics |-> Count(d, r)]

\* the whole call: how it ended, what it returned, the cache and the counters
\* after it
query_musicbrainz(m, c, d, hasColumn, answer) ==
    IF CacheReadRaises(hasColumn)
    THEN [how |-> "raise", result |-> NoResult, cache |-> c, diagnostics |-> d]
    ELSE IF CacheHit(c, m)
    THEN [how |-> "cache", result |-> CachedFields(c[m]), cache |-> c,
          diagnostics |-> d]
    ELSE FreshLookup(m, c, d, answer)

IsRemote(how) == how \in {"remote_ok", "remote_fail"}

\* the get_artist_by_id calls of the artist fallback, one per credit that
\* names an artist, each with its outcome
RECURSIVE ArtistCalls(_, _)
ArtistCalls(credits, down) ==
    IF credits = <<>> THEN <<>>
    ELSE (IF "artist" \in DOMAIN Head(credits)
          THEN <<[call |-> "artist", id |-> Head(credits).artist,
                  ok |-> Head(credits).artist \notin down]>>
          ELSE <<>>)
         \o ArtistCalls(Tail(credits), down)

\* time.sleep(1)
Sleep == [call |-> "sleep"]

\* the remote calls and the delay of a fresh lookup, in the order issued
FreshCalls(answer) ==
    IF answer.rec = Fail
    THEN <<[call |-> "recording", rec |-> Fail]>>
    ELSE LET recording == RecordingOf(answer.rec)
         IN <<[call |-> "recording", rec |-> answer.rec]>>
            \o (IF OwnTagCounts(recording) = <<>>
                THEN ArtistCalls(Get(recording, "credits", <<>>), answer.down)
                ELSE <<>>)
            \o <<Sleep>>

\* FreshCalls of every answer of the remote service
CallsOf == [a \in Answers |-> FreshCalls(a)]

\* the remote calls and the delay of one query_musicbrainz call
RemoteCalls(how, answer) == IF IsRemote(how) THEN CallsOf[answer] ELSE <<>>

\* ID3(file_path)
TagRead == [call |-> "tags"]

IsRemoteCall(e) == e.call \in {"recording", "artist"}

\* whether, after the calls, the latest remote call has had no delay after it
RECURSIVE Owed(_, _)
Owed(events, owed) ==
    IF events = <<>> THEN owed
    ELSE Owed(Tail(events),
              IF IsRemoteCall(Head(events)) THEN TRUE
              ELSE IF Head(events) = Sleep THEN FALSE
              ELSE owed)

NoWire == [events |-> <<>>, owed |-> FALSE]

---------------------------------------------------------------------------
(* DescriptorBuilder *)

\* the parts generate_metadata_string joins with "; ", each <<key, value>>
generate_metadata_string(artist, title, genre, year, album_type) ==
    (IF artist # Null THEN <<<<"artist", artist>>>> ELSE <<>>)
    \o (IF title # Null THEN <<<<"title", title>>>> ELSE <<>>)
    \o (IF genre # Null THEN <<<<"genre", genre>>>> ELSE <<>>)
    \o (IF year # NullYear THEN <<<<"year", year>>>> ELSE <<>>)
    \o (IF album_type # Null THEN <<<<"album_type", album_type>>>> ELSE <<>>)

\* the external embedding function: some vector for every descriptor
generate_embedding(metadata_string) == 1 + Len(metadata_string)

---------------------------------------------------------------------------
(* process_file *)

\* the condition under which an existing record is looked up again
NeedsBackfill(row) == row.track_mbid # Null /\ AnyMissing(row)

\* mutant: a result is applied to a field whether or not it is populated
BackfillOverwrite(row, r) ==
    [row EXCEPT
        !.genre = IF r.genre # Null THEN r.genre ELSE @,
        !.year = IF r.year # NullYear THEN r.year ELSE @,
        !.album_type = IF r.album_type # Null THEN r.album_type ELSE @]

\* a result is applied to a field only where the field is still null
Backfill(row, r) ==
    [row EXCEPT
        !.genre = IF r.genre # Null /\ row.genre = Null THEN r.genre ELSE @,
        !.year = IF r.year # NullYear /\ row.year = NullYear THEN r.year ELSE @,
        !.album_type = IF r.album_type # Null /\ row.album_type = Null
                       THEN r.album_type ELSE @]

\* the row the INSERT of a new track writes: the embedding column is not set
NewRow(ids, r) ==
    [track_mbid |-> ids.track_mbid, artist_mbid |-> ids.artist_mbid,
     release_group_mbid |-> ids.release_group_mbid,
     genre |-> r.genre, year |-> r.year, album_type |-> r.album_type,
     embedding |-> NoEmbedding]

\* an existing record that process_file leaves alone
IsComplete(t, f) == HasRow(t, f) /\ ~NeedsBackfill(t[f])

NoPend == [kind |-> "none"]

NoQuery == [how |-> "none", mbid |-> Null]

\* a table without rows
EmptyTable == [k \in {} |-> Null]

NotCalled(c, d) ==
    [how |-> "none", result |-> NoResult, cache |-> c, diagnostics |-> d]

\* process_file up to its track-record write: the row read, the tag read of a
\* new file, and the aggregator call with its cache commit; answer is what
\* the remote service says if it is asked
Begin(t, c, d, f, answer) ==
    IF HasRow(t, f)
    THEN IF ~IsComplete(t, f)
         THEN LET q == query_musicbrainz(t[f].track_mbid, c, d,
                                         hasPayloadColumn, answer)
              IN [kind |-> IF q.how = "raise" THEN "raise" ELSE "update",
                  mbid |-> t[f].track_mbid, ids |-> Null, q |-> q]
         ELSE [kind |-> "complete", mbid |-> Null, ids |-> Null,
               q |-> NotCalled(c, d)]
    ELSE LET ids == get_mbids(tags[f])
         IN IF ids.track_mbid # Null
            THEN LET q == query_musicbrainz(ids.track_mbid, c, d,
                                            hasPayloadColumn, answer)
                 IN [kind |-> IF q.how = "raise" THEN "raise" ELSE "insert",
                     mbid |-> ids.track_mbid, ids |-> ids, q |-> q]
            ELSE [kind |-> "insert", mbid |-> Null, ids |-> ids,
                  q |-> NotCalled(c, d)]

\* the recording id process_file would hand to the aggregator, if any
MbidFor(t, f) ==
    IF HasRow(t, f) THEN t[f].track_mbid ELSE get_mbids(tags[f]).track_mbid

\* the UPDATE of an existing record, issued only if a field changes
UpdateTrack(t, f, r) ==
    IF Backfill(t[f], r) # t[f] THEN Upsert(t, f, Backfill(t[f], r)) ELSE t

\* the INSERT of a new record
InsertTrack(t, f, ids, r) == Upsert(t, f, NewRow(ids, r))

\* the track-record write that ends process_file
Commit(t, f, p) ==
    IF p.kind = "update" THEN UpdateTrack(t, f, p.result)
    ELSE InsertTrack(t, f, p.ids, p.result)

\* the writes process_file issues on the tracks table to end
Writes(t, f, p) ==
    IF p.kind = "update"
    THEN (IF Backfill(t[f], p.result) # t[f] THEN <<[call |-> "update"]>>
          ELSE <<>>)
    ELSE <<[call |-> "insert"]>>

\* walk_and_process from listing position i, run without interruption under
\* the remote answers ans (one per recording id): the store it leaves and how
\* it ends
RECURSIVE WalkFrom(_, _, _, _)
WalkFrom(t, c, i, ans) ==
    IF i > Len(Dir) THEN [tracks |-> t, cache |-> c, ended |-> "done"]
    ELSE IF Dir[i] \notin Mp3Files THEN WalkFrom(t, c, i + 1, ans)
    ELSE LET m == MbidFor(t, Dir[i])
             b == Begin(t, c, NoDiagnostics, Dir[i],
                        IF m \in DOMAIN ans /\ ans[m] # Unasked THEN ans[m]
                        ELSE [rec |-> Fail, down |-> {}])
         IN IF b.kind = "raise"
            THEN [tracks |-> t, cache |-> c, ended |-> "aborted"]
            ELSE IF b.kind = "complete" THEN WalkFrom(t, c, i + 1, ans)
            ELSE WalkFrom(Commit(t, Dir[i], [kind |-> b.kind, ids |-> b.ids,
                                             result |-> b.q.result]),
                          b.q.cache, i + 1, ans)

---------------------------------------------------------------------------
(* The enrichment command *)

\* a track record an earlier run wrote from a legacy cache row
LegacyTrack(container) ==
    [NewRow(get_mbids(container), CachedFields(LegacyCacheRow))
        EXCEPT !.embedding = NoEmbedding]

InitStores ==
    /\ hasPayloadColumn \in BOOLEAN
    /\ tags \in [Mp3Files -> TagContainers]
    /\ cache \in IF hasPayloadColumn
                 THEN {EmptyTable, Upsert(EmptyTable, "m1", LegacyCacheRow)}
                 ELSE {EmptyTable}
    /\ tracks \in {EmptyTable} \cup
                  { Upsert(EmptyTable, f, LegacyTrack(tags[f])) :
                      f \in {g \in {Dir[1]} :
                               /\ HasRow(cache, "m1")
                               /\ get_mbids(tags[g]).track_mbid = "m1"} }

Idle == [pc |-> "idle"]

Init ==
    /\ InitStores
    /\ diagnostics = NoDiagnostics
    /\ pc = "scan"
    /\ idx = 1
    /\ pend = NoPend
    /\ run = 1
    /\ lastQuery = NoQuery
    /\ fresh = 0
    /\ failed = FALSE
    /\ prev = [ended |-> FALSE, failed |-> FALSE]
    /\ start = [tracks |-> tracks, cache |-> cache]
    /\ kills = 0
    /\ answered = [m \in Mbids |-> Unasked]
    /\ stable = TRUE
    /\ committed = {}
    /\ torn = FALSE
    /\ library = EmptyTable
    /\ sel = Idle
    /\ wire = NoWire
    /\ probe = Idle

Scanning == pc = "scan" /\ idx <= Len(Dir)

\* walk_and_process passes over a file that is no .mp3
SkipFile ==
    /\ Scanning
    /\ Dir[idx] \notin Mp3Files
    /\ idx' = idx + 1
    /\ lastQuery' = NoQuery
    /\ wire' = [wire EXCEPT !.events = <<>>]
    /\ UNCHANGED <<hasPayloadColumn, tags, tracks, cache,
                   diagnostics, pc, pend, run, fresh, failed, prev, start, kills,
                   answered, stable, committed, torn, library, sel, probe>>

\* process_file on a record that needs nothing: Existing Complete
ProcessComplete ==
    /\ Scanning
    /\ Dir[idx] \in Mp3Files
    /\ IsComplete(tracks, Dir[idx])
    /\ idx' = idx + 1
    /\ lastQuery' = NoQuery
    /\ wire' = [wire EXCEPT !.events = <<>>]
    /\ UNCHANGED <<hasPayloadColumn, tags, tracks, cache,
                   diagnostics, pc, pend, run, fresh, failed, prev, start, kills,
                   answered, stable, committed, torn, library, sel, probe>>

\* process_file up to its track-record write; an exception of the cache read
\* leaves walk_and_process and ends the run
ProcessQuery ==
    /\ Scanning
    /\ Dir[idx] \in Mp3Files
    /\ \E answer \in Answers :
        \E b \in {Begin(tracks, cache, diagnostics, Dir[idx], answer)} :
           /\ b.kind # "complete"
           /\ cache' = b.q.cache
           /\ diagnostics' = b.q.diagnostics
           /\ lastQuery' = [how |-> b.q.how, mbid |-> b.mbid]
           /\ \E events \in {(IF HasRow(tracks, Dir[idx]) THEN <<>>
                               ELSE <<TagRead>>)
                              \o RemoteCalls(b.q.how, answer)} :
                 wire' = [events |-> events, owed |-> Owed(events, wire.owed)]
           /\ fresh' = IF IsRemote(b.q.how) THEN fresh + 1 ELSE fresh
           /\ failed' = (failed \/ b.q.how = "remote_fail")
           /\ IF IsRemote(b.q.how)
              THEN /\ answered' = IF answered[b.mbid] = Unasked
                                  THEN [answered EXCEPT ![b.mbid] = answer]
                                  ELSE answered
                   /\ stable' = (stable /\ answered[b.mbid] \in {Unasked, answer})
              ELSE UNCHANGED <<answered, stable>>
           /\ IF b.kind = "raise"
              THEN pc' = "aborted" /\ pend' = NoPend
              ELSE /\ pc' = "store"
                   /\ pend' = [kind |-> b.kind, ids |-> b.ids,
                               result |-> b.q.result]
    /\ UNCHANGED <<hasPayloadColumn, tags, tracks, idx, run, prev, start, kills,
                   committed, torn, library, sel, probe>>

\* the track-record write and its commit
ProcessStore ==
    /\ pc = "store"
    /\ tracks' = Commit(tracks, Dir[idx], pend)
    /\ pend' = NoPend
    /\ pc' = "scan"
    /\ idx' = idx + 1
    /\ lastQuery' = NoQuery
    /\ wire' = [wire EXCEPT !.events = Writes(tracks, Dir[idx], pend)]
    /\ UNCHANGED <<hasPayloadColumn, tags, cache,
                   diagnostics, run, fresh, failed, prev, start, kills, answered,
                   stable, committed, torn, library, sel, probe>>

\* walk_and_process returns and main prints the summary
EndWalk ==
    /\ pc = "scan"
    /\ idx > Len(Dir)
    /\ pc' = "done"
    /\ lastQuery' = NoQuery
    /\ wire' = [wire EXCEPT !.events = <<>>]
    /\ UNCHANGED <<hasPayloadColumn, tags, tracks, cache,
                   diagnostics, idx, pend, run, fresh, failed, prev, start, kills,
                   answered, stable, committed, torn, library, sel, probe>>

\* the process is killed; its locals are lost, the committed writes stay
Kill ==
    /\ pc \in {"scan", "store"}
    /\ pc' = "killed"
    /\ pend' = NoPend
    /\ kills' = kills + 1
    /\ committed' = committed \cup {m \in Mbids : HasPayload(cache, m)}
    /\ torn' = (torn \/ (pc = "store" /\ lastQuery.how = "remote_ok"))
    /\ lastQuery' = NoQuery
    /\ wire' = NoWire
    /\ UNCHANGED <<hasPayloadColumn, tags, tracks, cache,
                   diagnostics, idx, run, fresh, failed, prev, start, answered,
                   stable, library, sel, probe>>

\* the command is started again over the same directory and store
Rerun ==
    /\ pc \in {"done", "aborted", "killed"}
    /\ run < MaxRuns
    /\ run' = run + 1
    /\ pc' = "scan"
    /\ idx' = 1
    /\ pend' = NoPend
    /\ diagnostics' = NoDiagnostics
    /\ lastQuery' = NoQuery
    /\ wire' = NoWire
    /\ fresh' = 0
    /\ failed' = FALSE
    /\ IF pc = "killed"
       THEN /\ prev' = [ended |-> FALSE, failed |-> FALSE]
            /\ UNCHANGED <<start, kills, answered, stable, committed, torn>>
       ELSE /\ prev' = [ended |-> TRUE, failed |-> failed]
            /\ start' = [tracks |-> tracks, cache |-> cache]
            /\ kills' = 0
            /\ answered' = [m \in Mbids |-> Unasked]
            /\ stable' = TRUE
            /\ committed' = {}
            /\ torn' = FALSE
    /\ UNCHANGED <<hasPayloadColumn, tags, tracks, cache,
                   library, sel, probe>>

Next ==
    \/ SkipFile
    \/ ProcessComplete
    \/ ProcessQuery
    \/ ProcessStore
    \/ EndWalk
    \/ Kill
    \/ Rerun

Spec == Init /\ [][Next]_vars

---------------------------------------------------------------------------
(* Properties of the enrichment pipeline *)

Ended == pc \in {"done", "aborted"}

\* C1: once the cache holds an entry with a raw payload for a recording id,
\* no call of query_musicbrainz for that id invokes the remote lookup: the
\* call is a cache hit, returns the cached fields and leaves the cache alone,
\* whether or not those fields are null.
C1_CacheAuthority ==
    [][\A m \in Mbids :
        (HasPayload(cache, m) /\ lastQuery'.mbid = m)
            => /\ lastQuery'.how = "cache"
               /\ pend'.result = CachedFields(cache[m])
               /\ fresh' = fresh
               /\ cache' = cache]_vars

\* C1 witness: in a later run, a call hit a cache entry whose three fields
\* are null
C1_Witness ==
    /\ run > 1
    /\ lastQuery.how = "cache"
    /\ CachedFields(cache[lastQuery.mbid]) = NoResult
    /\ pend.result = NoResult

\* the second pass changed nothing and looked nothing up
SecondPassInert ==
    /\ tracks = start.tracks
    /\ cache = start.cache
    /\ fresh = 0

C3_MonotonicBackfill ==
    [][\A f \in DOMAIN tracks :
        /\ f \in DOMAIN tracks'
        /\ tracks[f].genre # Null => tracks'[f].genre = tracks[f].genre
        /\ tracks[f].year # NullYear => tracks'[f].year = tracks[f].year
        /\ tracks[f].album_type # Null
              => tracks'[f].album_type = tracks[f].album_type]_vars

\* C3 witness: a record kept its genre while its year was backfilled from a
\* lookup that resolved another genre
C3_Witness ==
    \E f \in DOMAIN tracks :
        /\ f \in DOMAIN start.tracks
        /\ start.tracks[f].year = NullYear
        /\ tracks[f].year # NullYear
        /\ tracks[f].genre # Null
        /\ HasPayload(cache, tracks[f].track_mbid)
        /\ cache[tracks[f].track_mbid].genre \notin {Null, tracks[f].genre}

\* the embedding the descriptor of a record yields
EmbeddingOf(row) ==
    generate_embedding(
        generate_metadata_string(Null, Null, row.genre, row.year, row.album_type))

\* C4: when process_file has inserted the record of a new path, the record
\* holds the embedding of the descriptor built from its fields.
C4_EmbeddingPersisted ==
    [][\A f \in DOMAIN tracks' \ DOMAIN tracks :
        tracks'[f].embedding = EmbeddingOf(tracks'[f])]_vars

\* C5: over a store created by create_db no failure aborts the run, and when
\* walk_and_process ends every .mp3 file has a track record.
C5_RunCompletes ==
    ~hasPayloadColumn
        => /\ pc # "aborted"
           /\ pc = "done" => Mp3Files \subseteq DOMAIN tracks

\* C6: a failed remote lookup makes query_musicbrainz return three nulls
\* without raising, and process_file on a new file then inserts the record
\* with the identifiers read from the tags and null fields.
C6_LookupFailureIsAValue ==
    [][/\ lastQuery'.how = "remote_fail"
            => /\ pc' = "store"
               /\ pend'.result = NoResult
               /\ cache' = cache
       /\ (lastQuery.how = "remote_fail" /\ pend.kind = "insert" /\ pc' = "scan")
            => /\ Dir[idx] \notin DOMAIN tracks
               /\ tracks' = Upsert(tracks, Dir[idx],
                                   NewRow(get_mbids(tags[Dir[idx]]), NoResult))]_vars

\* C6 witness: the run went on after a failed lookup over a cache row, and
\* the new record carries its recording id and no field
C6_Witness ==
    /\ pc = "done"
    /\ failed
    /\ \E f \in DOMAIN tracks \ DOMAIN start.tracks :
          /\ tracks[f].track_mbid # Null
          /\ HasRow(cache, tracks[f].track_mbid)
          /\ ~HasPayload(cache, tracks[f].track_mbid)
          /\ cache[tracks[f].track_mbid].genre # Null
          /\ Missing(tracks[f]) = [genre |-> TRUE, year |-> TRUE,
                                   album_type |-> TRUE]

\* C7: when a run was killed and the command was run again to its end under
\* the same remote answers, the tracks table and the cache are those an
\* uninterrupted run leaves, and no recording id whose cache entry was
\* committed before a kill is looked up remotely again.
C7_CrashResumable ==
    [][/\ (pc' \in {"done", "aborted"} /\ kills' > 0 /\ stable')
            => LET w == WalkFrom(start'.tracks, start'.cache, 1, answered')
               IN /\ tracks' = w.tracks
                  /\ cache' = w.cache
                  /\ pc' = w.ended
       /\ \A m \in committed :
            ~(IsRemote(lastQuery'.how) /\ lastQuery'.mbid = m)]_vars

\* C7 witness: a run killed between a cache commit and the track-record
\* commit was run again to its end
C7_Witness ==
    /\ pc = "done"
    /\ kills > 0
    /\ stable
    /\ torn
    /\ \E f \in DOMAIN tracks \ DOMAIN start.tracks :
          /\ tracks[f].track_mbid \in committed
          /\ ~AnyMissing(tracks[f])

---------------------------------------------------------------------------
(* SelectionEngine: nexttrack.py *)

\* Exact arithmetic on reals is outside TLC: the embedding vectors are named
\* 1..4 and laid out so that their pairwise cosine distances, in units of
\* 1e-7, are 0, below the threshold, the threshold itself, pairs that differ
\* by less than epsilon and pairs that differ by more.
VectorAt == <<0, 10000, 10004, 5000000>>

Vectors == DOMAIN VectorAt

cosine_distance(a, b) ==
    IF VectorAt[a] >= VectorAt[b] THEN VectorAt[a] - VectorAt[b]
    ELSE VectorAt[b] - VectorAt[a]

\* 0.001, in units of 1e-7
DISTANCE_THRESHOLD == 10000

\* 1e-6, in units of 1e-7
Epsilon == 10

\* last_played is NULL
NullTime == 0

\* last_played holds text datetime.fromisoformat rejects
BadTime == -1

\* the timestamps the playback system may have written
Times == {1, 2}

\* datetime.now() of the invocation
Now == 3

\* play_count is NULL
NullCount == -1

\* the files of the resolver store the selection runs over
Library == {1, 2, 3}

\* the path of a file the store has no record of
Stranger == 4

\* the normalized title of a reference and the normalized name of a candidate
NormTitle == [f \in Files |-> normalize_string(TitleOf(PathOf[f]))]

NormFilename == [f \in Files |-> normalize_string(Basename(PathOf[f]))]

\* the orders in which the store may enumerate its rows
Orders ==
    {o \in [1..Cardinality(Library) -> Library] :
        \A i, j \in DOMAIN o : i # j => o[i] # o[j]}

\* load_input_track leaves with exit status 1
InputMissing(t, ref) ==
    IF HasRow(t, ref) THEN t[ref].embedding = NoEmbedding ELSE TRUE

\* mutant: the recording id of a candidate is not compared
SameRecordingIgnored(current_mbid, track_mbid) == FALSE

\* the candidate is the reference's recording
SameRecording(current_mbid, track_mbid) ==
    current_mbid # Null /\ track_mbid = current_mbid

\* the title heuristic
TitleMatch(ref, f) == Contains(NormTitle[ref], NormFilename[f])

\* the tests under which load_candidates passes over a row
Excluded(t, ref, f) ==
    \/ f = ref
    \/ SameRecording(t[ref].track_mbid, t[f].track_mbid)
    \/ TitleMatch(ref, f)

\* the last_played load_candidates reads for a path
LastPlayedOf(lib, f) == IF HasRow(lib, f) THEN lib[f].last_played ELSE NullTime

\* load_candidates over the rows in the order given
load_candidates(t, lib, ref, order) ==
    LET rows == SelectSeq(order, LAMBDA f : HasRow(t, f) /\ t[f].embedding # NoEmbedding)
        kept == SelectSeq(rows, LAMBDA f : ~Excluded(t, ref, f))
    IN [i \in DOMAIN kept |->
          [file |-> kept[i], emb |-> t[kept[i]].embedding,
           track_mbid |-> t[kept[i]].track_mbid,
           last_played |-> LastPlayedOf(lib, kept[i])]]

\* the parse of last_played: None for NULL and for text that does not parse
ParseTime(lp) == IF lp = NullTime \/ lp = BadTime THEN NullTime ELSE lp

NoBest == [file |-> 0, dist |-> 0, last_played |-> NullTime]

\* mutant: the near-duplicate test lets every candidate through
NearDuplicateNever(dist) == FALSE

\* dist < DISTANCE_THRESHOLD: the candidate is skipped as a near-duplicate
NearDuplicate(dist) == dist < DISTANCE_THRESHOLD

\* mutant: every distance counts as a tie
WithinAnyDistance(d1, d2) == TRUE

\* abs(dist - best_dist) < 1e-6
WithinEpsilon(d1, d2) == d1 - d2 < Epsilon /\ d2 - d1 < Epsilon

\* the recency test of a tie: whether the candidate replaces the best
Fresher(lp, best_lp) ==
    \/ best_lp # NullTime /\ lp # NullTime /\ lp < best_lp
    \/ best_lp # NullTime /\ lp = NullTime

\* one turn of the loop of select_best_match; st holds best and best_dist
Visit(st, current_emb, c) ==
    LET dist == cosine_distance(current_emb, c.emb)
        lp == ParseTime(c.last_played)
        mine == [file |-> c.file, dist |-> dist, last_played |-> lp]
    IN IF NearDuplicate(dist) THEN st
       ELSE IF st.best = NoBest THEN [best |-> mine, best_dist |-> dist]
       ELSE IF dist < st.best_dist THEN [best |-> mine, best_dist |-> dist]
       ELSE IF WithinEpsilon(dist, st.best_dist)
                 /\ Fresher(lp, st.best.last_played)
       THEN [best |-> mine, best_dist |-> st.best_dist]
       ELSE st

RECURSIVE Scan(_, _, _)
Scan(st, current_emb, candidates) ==
    IF candidates = <<>> THEN st
    ELSE Scan(Visit(st, current_emb, Head(candidates)), current_emb,
              Tail(candidates))

\* mutant: when no candidate survives, the first one visited is returned
select_best_match_or_first(current_emb, candidates) ==
    LET best == Scan([best |-> NoBest, best_dist |-> 0], current_emb,
                     candidates).best
    IN IF best = NoBest /\ candidates # <<>>
       THEN [file |-> candidates[1].file,
             dist |-> cosine_distance(current_emb, candidates[1].emb),
             last_played |-> ParseTime(candidates[1].last_played)]
       ELSE best

select_best_match(current_emb, candidates) ==
    Scan([best |-> NoBest, best_dist |-> 0], current_emb, candidates).best

\* mutant: a winner without a play-history row gets one
update_play_info_or_insert(lib, f) ==
    Upsert(lib, f,
           [play_count |-> (IF HasRow(lib, f) /\ lib[f].play_count # NullCount
                            THEN lib[f].play_count ELSE 0) + 1,
            last_played |-> Now])

\* update_play_info: only a row that exists is updated
update_play_info(lib, f) ==
    IF HasRow(lib, f)
    THEN [lib EXCEPT ![f] =
            [play_count |-> (IF @.play_count = NullCount THEN 0
                             ELSE @.play_count) + 1,
             last_played |-> Now]]
    ELSE lib

\* the rows the play-history store may hold for a path
HistoryRows ==
    {[play_count |-> NullCount, last_played |-> NullTime]}
    \cup {[play_count |-> 1, last_played |-> t] : t \in Times}

Tables(keys, rows) == UNION {[ks -> rows] : ks \in SUBSET keys}

SelRows ==
    [track_mbid : {Null, "m1"}, artist_mbid : {Null},
     release_group_mbid : {Null}, genre : {Null}, year : {NullYear},
     album_type : {Null}, embedding : {NoEmbedding} \cup Vectors]

SelInit ==
    /\ hasPayloadColumn = TRUE
    /\ tags = [f \in Mp3Files |-> Unreadable]
    /\ tracks \in [Library -> SelRows]
    /\ cache = EmptyTable
    /\ diagnostics = NoDiagnostics
    /\ pc = "off"
    /\ idx = 1
    /\ pend = NoPend
    /\ run = 1
    /\ lastQuery = NoQuery
    /\ fresh = 0
    /\ failed = FALSE
    /\ prev = [ended |-> FALSE, failed |-> FALSE]
    /\ start = [tracks |-> EmptyTable, cache |-> EmptyTable]
    /\ kills = 0
    /\ answered = [m \in Mbids |-> Unasked]
    /\ stable = TRUE
    /\ committed = {}
    /\ torn = FALSE
    /\ library \in Tables(Library, HistoryRows)
    /\ sel = Idle
    /\ wire = NoWire
    /\ probe = Idle

\* main, for a reference that is missing or has no embedding: exit status 1
SelectExit ==
    /\ sel.pc = "idle"
    /\ \E ref \in Library \cup {Stranger} :
          /\ InputMissing(tracks, ref)
          /\ sel' = [pc |-> "exit"]
    /\ UNCHANGED <<library, probe>>
    /\ UNCHANGED storeVars

\* main, from load_input_track to the play-history update
SelectNext ==
    /\ sel.pc = "idle"
    /\ \E ref \in Library \cup {Stranger}, order \in Orders :
          /\ ~InputMissing(tracks, ref)
          /\ LET candidates == load_candidates(tracks, library, ref, order)
                 best == select_best_match(tracks[ref].embedding, candidates)
             IN /\ sel' = [pc |-> "done", ref |-> ref,
                           candidates |-> candidates, best |-> best]
                /\ library' = IF best # NoBest
                              THEN update_play_info(library, best.file)
                              ELSE library
    /\ UNCHANGED <<storeVars, probe>>

SelNext == SelectExit \/ SelectNext

SelSpec == SelInit /\ [][SelNext]_vars

\* C16: every fresh lookup, failed or not, is followed by the pacing delay
\* before the next remote call of the run is issued, and a cache hit incurs
\* no delay.
C16_Pacing ==
    [][/\ (\E i \in DOMAIN wire'.events : IsRemoteCall(wire'.events[i]))
            => ~wire.owed
       /\ lastQuery'.how = "cache" => Sleep \notin Range(wire'.events)]_vars

\* process_file is entered for the file at the listing position
Enters ==
    /\ pc = "scan"
    /\ idx <= Len(Dir)
    /\ Dir[idx] \in Mp3Files
    /\ pc' \in {"scan", "store", "aborted"}

\* process_file ends with its track-record step
Stores == pc = "store" /\ pc' = "scan"

\* C17: on an existing record process_file is a no-op (no tag read, no
\* aggregator call, no write) exactly when every field is populated; on an
\* existing record with a recording id and a null field it calls the
\* aggregator once and writes the record only if a field changes; on a path
\* without a record it reads the tags, calls the aggregator once if a
\* recording id was found and not otherwise, and inserts one record.
C17_IngestionBranches ==
    [][LET f == Dir[idx]
       IN /\ (Enters /\ HasRow(tracks, f))
               => /\ pc' = "scan" <=> ~AnyMissing(tracks[f])
                  /\ TagRead \notin Range(wire'.events)
                  /\ pc' = "scan"
                       => /\ wire'.events = <<>>
                          /\ lastQuery'.how = "none"
                          /\ tracks' = tracks
                          /\ cache' = cache
                  /\ (tracks[f].track_mbid # Null /\ AnyMissing(tracks[f]))
                       => lastQuery' = [how |-> lastQuery'.how,
                                        mbid |-> tracks[f].track_mbid]
          /\ (Enters /\ ~HasRow(tracks, f))
               => /\ pc' # "scan"
                  /\ wire'.events # <<>>
                  /\ Head(wire'.events) = TagRead
                  /\ lastQuery'.how # "none"
                       <=> get_mbids(tags[f]).track_mbid # Null
          /\ (Stores /\ pend.kind = "update")
               => /\ wire'.events # <<>> <=> tracks' # tracks
                  /\ DOMAIN tracks' = DOMAIN tracks
          /\ (Stores /\ pend.kind = "insert")
               => /\ wire'.events = <<[call |-> "insert"]>>
                  /\ f \notin DOMAIN tracks
                  /\ DOMAIN tracks' = DOMAIN tracks \cup {f}]_vars

\* 1 if the field came back unresolved, else 0
Unresolved(isNull) == IF isNull THEN 1 ELSE 0

\* C18: after every fresh lookup each counter has grown by one if the
\* aggregator returned its field unresolved and is unchanged otherwise; a
\* cache hit changes no counter; no counter decreases during a run.
C18_DiagnosticsCounters ==
    [][/\ IsRemote(lastQuery'.how)
            => /\ diagnostics'.missing_genre = diagnostics.missing_genre
                    + Unresolved(pend'.result.genre = Null)
               /\ diagnostics'.missing_year = diagnostics.missing_year
                    + Unresolved(pend'.result.year = NullYear)
               /\ diagnostics'.missing_album_type = diagnostics.missing_album_type
                    + Unresolved(pend'.result.album_type = Null)
       /\ lastQuery'.how = "cache" => diagnostics' = diagnostics
       /\ run' = run
            => /\ diagnostics'.missing_genre >= diagnostics.missing_genre
               /\ diagnostics'.missing_year >= diagnostics.missing_year
               /\ diagnostics'.missing_album_type
                     >= diagnostics.missing_album_type]_vars

\* the remote calls of the latest query_musicbrainz call
RecordingCall == SelectSeq(wire.events, LAMBDA e : e.call = "recording")

ArtistFetches == SelectSeq(wire.events, LAMBDA e : e.call = "artist")

\* the tag lists of the recording and of the release groups of its releases
RECURSIVE ReleaseGroupTags(_)
ReleaseGroupTags(releases) ==
    IF releases = <<>> THEN <<>>
    ELSE (IF "rg" \in DOMAIN Head(releases) /\ "tags" \in DOMAIN Head(releases).rg
          THEN Head(releases).rg.tags ELSE <<>>)
         \o ReleaseGroupTags(Tail(releases))

OwnTags(recording) ==
    (IF "tags" \in DOMAIN recording THEN recording.tags ELSE <<>>)
    \o ReleaseGroupTags(IF "releases" \in DOMAIN recording
                        THEN recording.releases ELSE <<>>)

\* the tag lists of the artists whose fetch succeeded
RECURSIVE FetchedTags(_)
FetchedTags(fetches) ==
    IF fetches = <<>> THEN <<>>
    ELSE (IF Head(fetches).ok THEN ArtistData[Head(fetches).id].tags ELSE <<>>)
         \o FetchedTags(Tail(fetches))

\* the credited artists of a recording, in credit order
RECURSIVE CreditedArtists(_)
CreditedArtists(credits) ==
    IF credits = <<>> THEN <<>>
    ELSE (IF "artist" \in DOMAIN Head(credits) THEN <<Head(credits).artist>>
          ELSE <<>>)
         \o CreditedArtists(Tail(credits))

\* the aggregate weight of a tag name over a list of tags
RECURSIVE Weight(_, _)
Weight(tagList, name) ==
    IF tagList = <<>> THEN 0
    ELSE (IF Head(tagList).name = name
          THEN (IF "count" \in DOMAIN Head(tagList) THEN Head(tagList).count
                ELSE 1)
          ELSE 0)
         + Weight(Tail(tagList), name)

\* C19: artist tags are fetched only when the recording and its release
\* groups carry no tag; then every credited artist is fetched, whether or
\* not an earlier fetch failed, and the tags of those that answered are
\* counted; the lookup completes and writes the cache entry; the genre is a
\* tag of maximal aggregate weight, or null when no tag was found.
C19_GenreFallback ==
    [][(wire'.events # <<>> /\ RecordingCall' # <<>> /\ RecordingCall'[1].rec # Fail)
        => LET recording == RecordingOf(RecordingCall'[1].rec)
               credits == IF "credits" \in DOMAIN recording
                          THEN recording.credits ELSE <<>>
               counted == IF OwnTags(recording) # <<>> THEN OwnTags(recording)
                          ELSE FetchedTags(ArtistFetches')
               genre == pend'.result.genre
           IN /\ ArtistFetches' # <<>> => OwnTags(recording) = <<>>
              /\ OwnTags(recording) = <<>>
                   => [i \in DOMAIN ArtistFetches' |-> ArtistFetches'[i].id]
                         = CreditedArtists(credits)
              /\ lastQuery'.how = "remote_ok"
              /\ pc' = "store"
              /\ HasPayload(cache', lastQuery'.mbid)
              /\ cache'[lastQuery'.mbid].genre = genre
              /\ IF counted = <<>> THEN genre = Null
                 ELSE /\ \E i \in DOMAIN counted : counted[i].name = genre
                      /\ \A i \in DOMAIN counted :
                           Weight(counted, counted[i].name)
                              <= Weight(counted, genre)]_vars

\* C19 witness: the fetch of the first credited artist failed, the second
\* artist was fetched, its tag "rock" became the genre and the cache entry
\* was written
C19_Witness ==
    /\ lastQuery.how = "remote_ok"
    /\ Len(ArtistFetches) = 2
    /\ ~ArtistFetches[1].ok
    /\ ArtistFetches[2].ok
    /\ pend.result.genre = "rock"
    /\ HasPayload(cache, lastQuery.mbid)
    /\ cache[lastQuery.mbid].genre = "rock"

---------------------------------------------------------------------------
(* The aggregation on its own, over generated recordings *)

\* releases of a generated recording, at most
MaxReleases == 3

\* a release as the service may return it: with or without a release group,
\* a primary type, a status, a title keyword
ReleaseShapes ==
    LET groups == {[none |-> TRUE], [ptype |-> Null],
                   [ptype |-> "Album"], [ptype |-> "Single"]}
        statuses == {Null, "Official", "Bootleg"}
        titles == {<<"O","p","e","r","a">>, <<"L","i","v","e">>}
        release(g, st, ti) ==
            LET base == [title |-> ti]
                withStatus == IF st = Null THEN base
                              ELSE [k \in DOMAIN base \cup {"status"} |->
                                       IF k = "status" THEN st ELSE base[k]]
            IN IF "none" \in DOMAIN g THEN withStatus
               ELSE [k \in DOMAIN withStatus \cup {"rg"} |->
                        IF k = "rg"
                        THEN (IF g.ptype = Null THEN [id |-> "g"]
                              ELSE [id |-> "g", ptype |-> g.ptype])
                        ELSE withStatus[k]]
    IN {release(g, st, ti) : g \in groups, st \in statuses, ti \in titles}

\* the recordings the aggregation is taken of
GeneratedRecordings ==
    {[id |-> "generated", releases |-> rs] :
        rs \in UNION {[1..n -> ReleaseShapes] : n \in 0..MaxReleases}}

AggInit ==
    /\ hasPayloadColumn = TRUE
    /\ tags = [f \in Mp3Files |-> Unreadable]
    /\ tracks = EmptyTable
    /\ cache = EmptyTable
    /\ diagnostics = NoDiagnostics
    /\ pc = "off"
    /\ idx = 1
    /\ pend = NoPend
    /\ run = 1
    /\ lastQuery = NoQuery
    /\ fresh = 0
    /\ failed = FALSE
    /\ prev = [ended |-> FALSE, failed |-> FALSE]
    /\ start = [tracks |-> EmptyTable, cache |-> EmptyTable]
    /\ kills = 0
    /\ answered = [m \in Mbids |-> Unasked]
    /\ stable = TRUE
    /\ committed = {}
    /\ torn = FALSE
    /\ library = EmptyTable
    /\ sel = Idle
    /\ wire = NoWire
    /\ probe = Idle

\* the aggregation of query_musicbrainz applied to one recording
Aggregation ==
    /\ probe.pc = "idle"
    /\ \E recording \in GeneratedRecordings :
          probe' = [pc |-> "done", recording |-> recording,
                    result |-> Aggregate(recording, {})]
    /\ UNCHANGED <<storeVars, library, sel>>

AggNext == Aggregation

AggSpec == AggInit /\ [][AggNext]_vars

\* how many releases of the probed recording carry the primary type
TypeVotes(t) ==
    Cardinality({i \in DOMAIN probe.recording.releases :
        LET r == probe.recording.releases[i]
        IN "rg" \in DOMAIN r /\ "ptype" \in DOMAIN r.rg /\ r.rg.ptype = t})

\* how many releases of the probed recording carry the status
StatusVotes(st) ==
    Cardinality({i \in DOMAIN probe.recording.releases :
        LET r == probe.recording.releases[i]
        IN "status" \in DOMAIN r /\ r.status = st})

\* C13: when a release carries a release-group primary type, the album_type
\* is a primary type of the most releases, whatever the statuses and the
\* titles; without any primary type it is a status of the most releases;
\* and a title keyword decides only when there is neither.
C13_AlbumTypePrecedence ==
    probe.pc = "done"
        => LET at == probe.result.album_type
               types == {"Album", "Single"}
               statuses == {"Official", "Bootleg"}
           IN IF \E t \in types : TypeVotes(t) > 0
              THEN /\ at \in types
                   /\ \A t \in types : TypeVotes(t) <= TypeVotes(at)
              ELSE IF \E st \in statuses : StatusVotes(st) > 0
              THEN /\ at \in statuses
                   /\ \A st \in statuses : StatusVotes(st) <= StatusVotes(at)
              ELSE at \in {"Live", Null}

\* C13 witness: the first release is a bootleg single titled "Live", two
\* later releases are albums, and the album_type is "Album"
C13_Witness ==
    /\ probe.pc = "done"
    /\ Len(probe.recording.releases) = 3
    /\ probe.recording.releases[1] =
          [title |-> <<"L","i","v","e">>, status |-> "Bootleg",
           rg |-> [id |-> "g", ptype |-> "Single"]]
    /\ TypeVotes("Album") = 2
    /\ probe.result.album_type = "Album"

---------------------------------------------------------------------------
(* Properties of the selection engine *)

Selected == sel.pc = "done" /\ sel.best # NoBest

\* the distance select_best_match computed for a candidate of the invocation
DistOf(c) == cosine_distance(tracks[sel.ref].embedding, c.emb)

\* C8: for a reference with a recording id, select_next never returns a
\* candidate of the same recording id, and it never returns the reference.
C8_IdentifierExclusion ==
    Selected
        => /\ sel.best.file # sel.ref
           /\ tracks[sel.ref].track_mbid # Null
                => tracks[sel.best.file].track_mbid # tracks[sel.ref].track_mbid

\* C8 witness: a track of the reference's recording, which no other rule
\* excludes and which lies nearer than the winner, was passed over
C8_Witness ==
    /\ Selected
    /\ \E f \in Library \ {sel.ref} :
          /\ tracks[f].embedding # NoEmbedding
          /\ tracks[f].track_mbid # Null
          /\ tracks[f].track_mbid = tracks[sel.ref].track_mbid
          /\ ~TitleMatch(sel.ref, f)
          /\ cosine_distance(tracks[sel.ref].embedding, tracks[f].embedding)
                >= DISTANCE_THRESHOLD
          /\ cosine_distance(tracks[sel.ref].embedding, tracks[f].embedding)
                < sel.best.dist

\* "Queen - Bohemian Rhapsody.mp3"
QueenOriginal == CHOOSE f \in Files : NormTitle[f] =
    <<"q","u","e","e","n","b","o","h","e","m","i","a","n","r","h","a","p","s",
      "o","d","y">>

\* "01 - Bohemian Rhapsody (Remastered).mp3"
Remaster == CHOOSE f \in Files : NormFilename[f] =
    <<"0","1","b","o","h","e","m","i","a","n","r","h","a","p","s","o","d","y",
      "r","e","m","a","s","t","e","r","e","d","m","p","3">>

\* C9: a candidate whose normalized filename contains the reference's
\* normalized title is never selected, and with the reference
\* "Queen - Bohemian Rhapsody.mp3" the candidate
\* "01 - Bohemian Rhapsody (Remastered).mp3" is never selected.
C9_TitleExclusion ==
    Selected
        => /\ ~Contains(NormTitle[sel.ref], NormFilename[sel.best.file])
           /\ sel.ref = QueenOriginal => sel.best.file # Remaster

\* candidates i and j of the invocation survive the threshold, lie within
\* epsilon of each other, and every other surviving candidate lies farther
\* than both by epsilon or more
TiedPair(i, j) ==
    LET cs == sel.candidates
    IN /\ i # j
       /\ DistOf(cs[i]) >= DISTANCE_THRESHOLD
       /\ DistOf(cs[j]) >= DISTANCE_THRESHOLD
       /\ WithinEpsilon(DistOf(cs[i]), DistOf(cs[j]))
       /\ \A k \in DOMAIN cs \ {i, j} :
            \/ DistOf(cs[k]) < DISTANCE_THRESHOLD
            \/ /\ DistOf(cs[k]) >= DistOf(cs[i]) + Epsilon
               /\ DistOf(cs[k]) >= DistOf(cs[j]) + Epsilon

\* C10: of two candidates tied within epsilon and beaten by no other, the
\* one never played is returned rather than the one played, and of two
\* played ones the one played longer ago, in whatever order they are visited.
C10_TieBreakByRecency ==
    sel.pc = "done"
        => \A i, j \in DOMAIN sel.candidates :
             LET a == sel.candidates[i]
                 b == sel.candidates[j]
             IN (/\ TiedPair(i, j)
                 /\ ParseTime(b.last_played) # NullTime
                 /\ \/ ParseTime(a.last_played) = NullTime
                    \/ ParseTime(a.last_played) < ParseTime(b.last_played))
                => sel.best.file = a.file

\* the candidates of the invocation that survive the near-duplicate test
Survivors ==
    {i \in DOMAIN sel.candidates :
        DistOf(sel.candidates[i]) >= DISTANCE_THRESHOLD}

\* C11: when no candidate survives the exclusion rules and the threshold,
\* select_next reports no suitable match, and whenever it reports no suitable
\* match the play-history store is left as it was.
C11_NoCandidate ==
    [][sel'.pc = "done"
        => /\ (\A i \in DOMAIN sel'.candidates :
                 cosine_distance(tracks[sel'.ref].embedding,
                                 sel'.candidates[i].emb) < DISTANCE_THRESHOLD)
                => sel'.best = NoBest
           /\ sel'.best = NoBest => library' = library]_vars

\* C11 witness: the reference is the only track with an embedding, every
\* track has a play-history row, and no match was reported
C11_Witness ==
    /\ sel.pc = "done"
    /\ sel.best = NoBest
    /\ sel.candidates = <<>>
    /\ \A f \in Library \ {sel.ref} : tracks[f].embedding = NoEmbedding
    /\ DOMAIN library = Library

\* C12: a successful selection changes the play-history store on the
\* winner's row only, and only if that row exists: play_count grows by one
\* (NULL counting as 0) and last_played becomes now; no row is created, and
\* the tracks table and the cache are unchanged.
C12_PlayHistoryUpdate ==
    [][(sel'.pc = "done" /\ sel'.best # NoBest)
        => LET w == sel'.best.file
           IN /\ DOMAIN library' = DOMAIN library
              /\ \A f \in DOMAIN library \ {w} : library'[f] = library[f]
              /\ w \in DOMAIN library
                   => /\ library'[w].play_count =
                           (IF library[w].play_count = NullCount THEN 0
                            ELSE library[w].play_count) + 1
                      /\ library'[w].last_played = Now
              /\ tracks' = tracks
              /\ cache' = cache]_vars

\* C12 witness: the winner's row, whose play_count was NULL, now counts one
\* play at now, next to the row of another track
C12_Witness ==
    /\ Selected
    /\ HasRow(library, sel.best.file)
    /\ library[sel.best.file] = [play_count |-> 1, last_played |-> Now]
    /\ \E f \in DOMAIN library : f # sel.best.file

\* C14: the distance of the candidate returned exceeds the minimum distance
\* over the surviving candidates by less than epsilon, and when one candidate
\* only lies within epsilon of the minimum, that candidate is returned.
C14_MinimumDistance ==
    Selected
        => /\ \E i \in Survivors :
                /\ sel.candidates[i].file = sel.best.file
                /\ DistOf(sel.candidates[i]) = sel.best.dist
           /\ \A i \in Survivors :
                sel.best.dist < DistOf(sel.candidates[i]) + Epsilon
           /\ \A i \in Survivors :
                (\A j \in Survivors \ {i} :
                    DistOf(sel.candidates[j]) >= DistOf(sel.candidates[i]) + Epsilon)
                => sel.best.file = sel.candidates[i].file

\* C14 witness: two candidates survive and the winner, preferred in a tie,
\* lies farther than the other by less than epsilon
C14_Witness ==
    /\ Selected
    /\ Cardinality(Survivors) = 2
    /\ \E i \in Survivors : DistOf(sel.candidates[i]) < sel.best.dist

\* C15: select_next never returns a candidate whose distance to the
\* reference is below the threshold.
C15_NearDuplicateThreshold ==
    Selected
        => /\ sel.best.dist >= DISTANCE_THRESHOLD
           /\ cosine_distance(tracks[sel.ref].embedding,
                              tracks[sel.best.file].embedding)
                 >= DISTANCE_THRESHOLD

\* C15 witness: the only candidate the exclusion rules left lies below the
\* threshold, at a distance that is not zero, and nothing was returned
C15_Witness ==
    /\ sel.pc = "done"
    /\ Len(sel.candidates) = 1
    /\ DistOf(sel.candidates[1]) > 0
    /\ DistOf(sel.candidates[1]) < DISTANCE_THRESHOLD
    /\ sel.best = NoBest

\* C20: for a fixed reference and fixed candidates, select_best_match
\* returns the same winner in whatever order the store enumerates the rows.
C20_OrderIndependence ==
    [][sel'.pc = "done"
        => \A order \in Orders :
             select_best_match(
                 tracks[sel'.ref].embedding,
                 load_candidates(tracks, library, sel'.ref, order)).file
               = sel'.best.file]_vars

====
